---- MODULE Spec2Model ----
(***************************************************************************)
(* Token cache and refresh protocol of the Zoho OAuth worker               *)
(* (src/src/index.ts; src/unnamed/part_000 holds the same token code).     *)
(*                                                                         *)
(* Every await of the source is a point where other invocations, the       *)
(* clock, a rejected KV write or a teardown of the invocation can come in  *)
(* between, so every await is the boundary between two actions.            *)
(***************************************************************************)
EXTENDS Integers, FiniteSets, Sequences, TLC

\* ---------------------------------------------------------------- bounds
\* the clock runs from 0 to MaxTicks ticks
MaxTicks == 3

\* one tick of the model's clock, in milliseconds (half an hour)
TickMs == 1800 * 1000

\* lifetimes (expires_in, seconds) the identity provider hands out
ExpiresInChoices == {1800, 3600}

\* concurrent invocations: requests that reach getValidAccessToken, and
\* requests to /oauth/callback
GProcs == {"g1", "g2"}
XProcs == {"x1"}
Procs == GProcs \cup XProcs

\* ------------------------------------------------------------ data model
\* KV get() of a key that was never put, and an unset local
Null == [null |-> TRUE]

Keys == {"access_token", "refresh_token", "token_expiry"}

\* an access token as the provider minted it: when, for how long, for whom
AccessTok(at, life, to) == [at |-> at, life |-> life, to |-> to]

\* a refresh token as the provider minted it
RefreshTok(to) == [rt |-> to]

\* (n).toString() of a millisecond count, as stored under token_expiry
toString(n) == [digits |-> n]

\* parseInt of a stored token_expiry string
parseInt(s) == s.digits

\* a number in a JSON body (a field left out of the body reads as Null)
Num(n) == [num |-> n]

\* JavaScript truthiness of a value read from KV: null is falsy, the tokens
\* and the digit strings the program stores are never empty
Truthy(v) == v # Null

\* the message of a thrown Error: a fixed text followed by the inserted text
Error(text, detail) == [kind |-> "throw", message |-> <<text, detail>>]

Return(v) == [kind |-> "return", value |-> v]

\* the Response that handleCallback answers with
Response(status, body) == [kind |-> "response", status |-> status, body |-> body]

VARIABLES
    now,        \* Date.now(), milliseconds
    store,      \* the ZOHO_TOKENS KV namespace: key -> string or Null
    pc,         \* where each invocation stands
    rd,         \* getValidAccessToken: what each kv.get has answered so far
    response,   \* the token endpoint's answer to this invocation's POST
    newToken,   \* getValidAccessToken: newToken
    tokens,     \* handleCallback: tokens
    expiryArg,  \* the string passed to the put of token_expiry
    posts,      \* POSTs to the token endpoint issued by this invocation
    wrote,      \* keys this invocation has put
    result      \* what the invocation returned or threw

vars == <<now, store, pc, rd, response, newToken, tokens, expiryArg, posts, wrote, result>>

Unread == [unread |-> TRUE]

NoReads == [k \in Keys |-> Unread]

EmptyStore == [k \in Keys |-> Null]

\* the locals of invocation p as they are before it runs and after it ended
ResetLocals(p) ==
    /\ rd' = IF p \in GProcs THEN [rd EXCEPT ![p] = NoReads] ELSE rd
    /\ newToken' = IF p \in GProcs THEN [newToken EXCEPT ![p] = Null] ELSE newToken
    /\ tokens' = IF p \in XProcs THEN [tokens EXCEPT ![p] = Null] ELSE tokens
    /\ response' = [response EXCEPT ![p] = Null]
    /\ expiryArg' = [expiryArg EXCEPT ![p] = Null]
    /\ posts' = [posts EXCEPT ![p] = 0]
    /\ wrote' = [wrote EXCEPT ![p] = {}]
    /\ result' = [result EXCEPT ![p] = Null]

InitLocals ==
    /\ pc = [p \in Procs |-> "idle"]
    /\ rd = [p \in GProcs |-> NoReads]
    /\ newToken = [p \in GProcs |-> Null]
    /\ tokens = [p \in XProcs |-> Null]
    /\ response = [p \in Procs |-> Null]
    /\ expiryArg = [p \in Procs |-> Null]
    /\ posts = [p \in Procs |-> 0]
    /\ wrote = [p \in Procs |-> {}]
    /\ result = [p \in Procs |-> Null]

\* a fresh deployment: nothing in KV yet
Init ==
    /\ now = 0
    /\ store = EmptyStore
    /\ InitLocals

\* the record a callback that ran at time 0 has left in KV
Exchanged(life) ==
    [access_token  |-> AccessTok(0, life, "x1"),
     refresh_token |-> RefreshTok("x1"),
     token_expiry  |-> toString(0 + life * 1000)]

\* KV before the first callback, or after one
InitExchanged ==
    /\ now = 0
    /\ store \in {EmptyStore} \cup {Exchanged(life) : life \in ExpiresInChoices}
    /\ InitLocals

\* KV as an earlier deployment may have left it: any of the three keys set
\* or not
StoredRecords ==
    [access_token  : {Null} \cup {AccessTok(0, life, "x1") : life \in ExpiresInChoices},
     refresh_token : {Null, RefreshTok("x1")},
     token_expiry  : {Null} \cup {toString(k * TickMs) : k \in 0..MaxTicks}]

InitStored ==
    /\ now = 0
    /\ store \in StoredRecords
    /\ InitLocals

\* ------------------------------------------------- the identity provider
\* POST /oauth/v2/token, grant_type=refresh_token: the answers it can give.
\* A success body carries a freshly minted access token; expires_in may be
\* left out of the body.
RefreshOk(p) ==
    { [ok |-> TRUE, status |-> "200", statusText |-> "OK",
       json |-> [access_token |-> AccessTok(now, life, p), expires_in |-> e]] :
         <<life, e>> \in { <<l, Num(l)>> : l \in ExpiresInChoices }
                         \cup { <<l, Null>> : l \in ExpiresInChoices } }

\* a success status whose body is no JSON
MalformedBody == [malformed |-> TRUE]

RefreshMalformed ==
    { [ok |-> TRUE, status |-> "200", statusText |-> "OK", json |-> MalformedBody] }

Rejections ==
    { [ok |-> FALSE, status |-> "401", statusText |-> "Unauthorized", json |-> Null],
      [ok |-> FALSE, status |-> "500", statusText |-> "Internal Server Error", json |-> Null] }

\* POST /oauth/v2/token, grant_type=authorization_code: a success body is a
\* ZohoTokenResponse
ExchangeOk(x) ==
    { [ok |-> TRUE, status |-> "200", statusText |-> "OK",
       json |-> [access_token |-> AccessTok(now, life, x),
                 refresh_token |-> RefreshTok(x),
                 expires_in |-> Num(life)]] : life \in ExpiresInChoices }

\* ------------------------------------------------------------- the clock
Tick ==
    /\ now < MaxTicks * TickMs
    /\ now' = now + TickMs
    /\ UNCHANGED <<store, pc, rd, response, newToken, tokens, expiryArg, posts, wrote, result>>

\* --------------------------------------------------- getValidAccessToken
\* the call: Promise.all issues the three kv.get
getValidAccessToken(p) ==
    /\ pc[p] = "idle"
    /\ pc' = [pc EXCEPT ![p] = "reading"]
    /\ UNCHANGED <<now, store, rd, response, newToken, tokens, expiryArg, posts, wrote, result>>

\* one of the three kv.get answers
kvGet(p, k) ==
    /\ pc[p] = "reading"
    /\ rd[p][k] = Unread
    /\ rd' = [rd EXCEPT ![p][k] = store[k]]
    /\ UNCHANGED <<now, store, pc, response, newToken, tokens, expiryArg, posts, wrote, result>>

AllRead(p) == \A k \in Keys : rd[p][k] # Unread

\* (mutant) an access token stored without token_expiry counts as valid
TokenStillValid_noExpiryNeeded(access_token, token_expiry, t) ==
    /\ Truthy(access_token)
    /\ (~Truthy(token_expiry) \/ t < parseInt(token_expiry))

\* (mutant) the comparison of line 436 made less-than-or-equal
TokenStillValid_orEqual(access_token, token_expiry, t) ==
    /\ Truthy(access_token)
    /\ Truthy(token_expiry)
    /\ t <= parseInt(token_expiry)

\* (mutant) the comparison of line 436 the wrong way round
TokenStillValid_reversed(access_token, token_expiry, t) ==
    /\ Truthy(access_token)
    /\ Truthy(token_expiry)
    /\ parseInt(token_expiry) < t

\* access_token && token_expiry && Date.now() < parseInt(token_expiry)
TokenStillValid(access_token, token_expiry, t) ==
    /\ Truthy(access_token)
    /\ Truthy(token_expiry)
    /\ t < parseInt(token_expiry)

\* (mutant) the refresh is tried without looking at refresh_token
HasRefreshToken_always(refresh_token) == TRUE

\* if (refresh_token)
HasRefreshToken(refresh_token) == Truthy(refresh_token)

\* "If token is still valid, return it"
returnCached(p) ==
    /\ pc[p] = "reading"
    /\ AllRead(p)
    /\ TokenStillValid(rd[p]["access_token"], rd[p]["token_expiry"], now)
    /\ result' = [result EXCEPT ![p] = Return(rd[p]["access_token"])]
    /\ pc' = [pc EXCEPT ![p] = "done"]
    /\ rd' = [rd EXCEPT ![p] = NoReads]
    /\ UNCHANGED <<now, store, response, newToken, tokens, expiryArg, posts, wrote>>

\* (mutant) single flight: no refresh is started while another is under way
callRefresh_singleFlight(p) ==
    /\ pc[p] = "reading"
    /\ AllRead(p)
    /\ ~TokenStillValid(rd[p]["access_token"], rd[p]["token_expiry"], now)
    /\ HasRefreshToken(rd[p]["refresh_token"])
    /\ \A q \in GProcs \ {p} : pc[q] \notin {"awaitRefresh", "putAccess", "putExpiry"}
    /\ posts' = [posts EXCEPT ![p] = @ + 1]
    /\ pc' = [pc EXCEPT ![p] = "awaitRefresh"]
    /\ rd' = [rd EXCEPT ![p] = NoReads]
    /\ UNCHANGED <<now, store, response, newToken, tokens, expiryArg, wrote, result>>

\* "Otherwise refresh the token": refreshAccessToken sends its POST
callRefresh(p) ==
    /\ pc[p] = "reading"
    /\ AllRead(p)
    /\ ~TokenStillValid(rd[p]["access_token"], rd[p]["token_expiry"], now)
    /\ HasRefreshToken(rd[p]["refresh_token"])
    /\ posts' = [posts EXCEPT ![p] = @ + 1]
    /\ pc' = [pc EXCEPT ![p] = "awaitRefresh"]
    /\ rd' = [rd EXCEPT ![p] = NoReads]
    /\ UNCHANGED <<now, store, response, newToken, tokens, expiryArg, wrote, result>>

ReauthorizeError == Error("No valid tokens available. Please reauthorize.", "")

\* neither a valid token nor a refresh token
throwReauthorize(p) ==
    /\ pc[p] = "reading"
    /\ AllRead(p)
    /\ ~TokenStillValid(rd[p]["access_token"], rd[p]["token_expiry"], now)
    /\ ~HasRefreshToken(rd[p]["refresh_token"])
    /\ result' = [result EXCEPT ![p] = ReauthorizeError]
    /\ pc' = [pc EXCEPT ![p] = "done"]
    /\ rd' = [rd EXCEPT ![p] = NoReads]
    /\ UNCHANGED <<now, store, response, newToken, tokens, expiryArg, posts, wrote>>

\* (mutant) the message is built from response.status
RefreshError_status(resp) == Error("Failed to refresh token: ", resp.status)

\* the Error refreshAccessToken throws on !response.ok
RefreshError(resp) == Error("Failed to refresh token: ", resp.statusText)

\* response.json() rejects on a body that is no JSON
JsonError == Error("SyntaxError", "")

\* (mutant) a rejected refresh deletes the access token it could not renew
refreshRejected_invalidates(p) ==
    /\ pc[p] = "awaitRefresh"
    /\ \E resp \in Rejections :
         /\ response' = [response EXCEPT ![p] = resp]
         /\ result' = [result EXCEPT ![p] = RefreshError(resp)]
    /\ store' = [store EXCEPT !["access_token"] = Null]
    /\ pc' = [pc EXCEPT ![p] = "done"]
    /\ UNCHANGED <<now, rd, newToken, tokens, expiryArg, posts, wrote>>

\* (mutant) a rejected refresh is posted once more before the call gives up
refreshRejected_retriesOnce(p) ==
    /\ pc[p] = "awaitRefresh"
    /\ \E resp \in Rejections :
         IF posts[p] < 2
           THEN /\ posts' = [posts EXCEPT ![p] = @ + 1]
                /\ UNCHANGED <<pc, response, result>>
           ELSE /\ response' = [response EXCEPT ![p] = resp]
                /\ result' = [result EXCEPT ![p] = RefreshError(resp)]
                /\ pc' = [pc EXCEPT ![p] = "done"]
                /\ UNCHANGED posts
    /\ UNCHANGED <<now, store, rd, newToken, tokens, expiryArg, wrote>>

\* the token endpoint rejects the refresh
refreshRejected(p) ==
    /\ pc[p] = "awaitRefresh"
    /\ \E resp \in Rejections :
         /\ response' = [response EXCEPT ![p] = resp]
         /\ result' = [result EXCEPT ![p] = RefreshError(resp)]
    /\ pc' = [pc EXCEPT ![p] = "done"]
    /\ UNCHANGED <<now, store, rd, newToken, tokens, expiryArg, posts, wrote>>

\* the token endpoint answers 200 with a body that does not parse
refreshMalformed(p) ==
    /\ pc[p] = "awaitRefresh"
    /\ \E resp \in RefreshMalformed :
         /\ response' = [response EXCEPT ![p] = resp]
         /\ result' = [result EXCEPT ![p] = JsonError]
    /\ pc' = [pc EXCEPT ![p] = "done"]
    /\ UNCHANGED <<now, store, rd, newToken, tokens, expiryArg, posts, wrote>>

\* refreshAccessToken returns tokens.access_token; kv.put of it is called
refreshAnswered(p) ==
    /\ pc[p] = "awaitRefresh"
    /\ \E resp \in RefreshOk(p) :
         /\ response' = [response EXCEPT ![p] = resp]
         /\ newToken' = [newToken EXCEPT ![p] = resp.json.access_token]
    /\ pc' = [pc EXCEPT ![p] = "putAccess"]
    /\ UNCHANGED <<now, store, rd, tokens, expiryArg, posts, wrote, result>>

\* (Date.now() + 3600 * 1000).toString()  -- "1 hour expiry"
\* (mutant) the expiry forgets Date.now()
RefreshExpiry_noNow(t) == toString(3600 * 1000)

RefreshExpiry(t) == toString(t + 3600 * 1000)

\* (mutant) the refresh puts token_expiry first and access_token after it
putNewToken_expiryFirst(p) ==
    /\ pc[p] = "putAccess"
    /\ store' = [store EXCEPT !["token_expiry"] = RefreshExpiry(now)]
    /\ wrote' = [wrote EXCEPT ![p] = @ \cup {"token_expiry"}]
    /\ expiryArg' = [expiryArg EXCEPT ![p] = RefreshExpiry(now)]
    /\ pc' = [pc EXCEPT ![p] = "putExpiry"]
    /\ response' = [response EXCEPT ![p] = Null]
    /\ UNCHANGED <<now, rd, newToken, tokens, posts, result>>

\* (mutant) the new token is returned as soon as access_token is stored; the
\* put of token_expiry is not awaited
putNewToken_returnsAtOnce(p) ==
    /\ pc[p] = "putAccess"
    /\ store' = [store EXCEPT !["access_token"] = newToken[p]]
    /\ wrote' = [wrote EXCEPT ![p] = @ \cup {"access_token"}]
    /\ result' = [result EXCEPT ![p] = Return(newToken[p])]
    /\ pc' = [pc EXCEPT ![p] = "done"]
    /\ response' = [response EXCEPT ![p] = Null]
    /\ newToken' = [newToken EXCEPT ![p] = Null]
    /\ UNCHANGED <<now, rd, tokens, expiryArg, posts>>

\* (mutant) the refresh rewrites the record and drops the refresh token
putNewToken_dropsRefresh(p) ==
    /\ pc[p] = "putAccess"
    /\ store' = [store EXCEPT !["access_token"] = newToken[p],
                              !["refresh_token"] = Null]
    /\ wrote' = [wrote EXCEPT ![p] = @ \cup {"access_token"}]
    /\ expiryArg' = [expiryArg EXCEPT ![p] = RefreshExpiry(now)]
    /\ pc' = [pc EXCEPT ![p] = "putExpiry"]
    /\ response' = [response EXCEPT ![p] = Null]
    /\ UNCHANGED <<now, rd, newToken, tokens, posts, result>>

\* kv.put('access_token', newToken) lands; the put of token_expiry is called
putNewToken(p) ==
    /\ pc[p] = "putAccess"
    /\ store' = [store EXCEPT !["access_token"] = newToken[p]]
    /\ wrote' = [wrote EXCEPT ![p] = @ \cup {"access_token"}]
    /\ expiryArg' = [expiryArg EXCEPT ![p] = RefreshExpiry(now)]
    /\ pc' = [pc EXCEPT ![p] = "putExpiry"]
    /\ response' = [response EXCEPT ![p] = Null]
    /\ UNCHANGED <<now, rd, newToken, tokens, posts, result>>

\* kv.put('token_expiry', ...) lands; return newToken
putNewExpiry(p) ==
    /\ pc[p] = "putExpiry"
    /\ store' = [store EXCEPT !["token_expiry"] = expiryArg[p]]
    /\ wrote' = [wrote EXCEPT ![p] = @ \cup {"token_expiry"}]
    /\ result' = [result EXCEPT ![p] = Return(newToken[p])]
    /\ pc' = [pc EXCEPT ![p] = "done"]
    /\ newToken' = [newToken EXCEPT ![p] = Null]
    /\ expiryArg' = [expiryArg EXCEPT ![p] = Null]
    /\ UNCHANGED <<now, rd, response, tokens, posts>>

KvPutError == Error("KV put failed", "")

\* an awaited kv.put rejects: nothing is stored, the rejection propagates
putRejected(p) ==
    /\ pc[p] \in {"putAccess", "putExpiry"}
    /\ result' = [result EXCEPT ![p] = KvPutError]
    /\ pc' = [pc EXCEPT ![p] = "done"]
    /\ response' = [response EXCEPT ![p] = Null]
    /\ newToken' = [newToken EXCEPT ![p] = Null]
    /\ expiryArg' = [expiryArg EXCEPT ![p] = Null]
    /\ UNCHANGED <<now, store, rd, tokens, posts, wrote>>

\* the steps of an invocation after its call
GSteps(p) ==
    \/ \E k \in Keys : kvGet(p, k)
    \/ returnCached(p)
    \/ callRefresh(p)
    \/ throwReauthorize(p)
    \/ refreshRejected(p)
    \/ refreshMalformed(p)
    \/ refreshAnswered(p)
    \/ putNewToken(p)
    \/ putNewExpiry(p)
    \/ putRejected(p)

GNext(p) == getValidAccessToken(p) \/ GSteps(p)

\* -------------------------------------------------------- handleCallback
\* the callback URL carries no code: 400, nothing else happens
callbackWithoutCode(x) ==
    /\ pc[x] = "idle"
    /\ result' = [result EXCEPT ![x] = Response(400, <<"Authorization code missing">>)]
    /\ pc' = [pc EXCEPT ![x] = "done"]
    /\ UNCHANGED <<now, store, rd, response, newToken, tokens, expiryArg, posts, wrote>>

\* the callback URL carries a code: getInitialTokens sends its POST
handleCallback(x) ==
    /\ pc[x] = "idle"
    /\ posts' = [posts EXCEPT ![x] = @ + 1]
    /\ pc' = [pc EXCEPT ![x] = "awaitTokens"]
    /\ UNCHANGED <<now, store, rd, response, newToken, tokens, expiryArg, wrote, result>>

\* (mutant) the exchange fails with the message of a failed refresh
ExchangeError_refreshText(resp) == Error("Failed to refresh token: ", resp.statusText)

\* the Error getInitialTokens throws on !response.ok
ExchangeError(resp) == Error("Failed to get tokens: ", resp.statusText)

\* the catch of handleCallback: 500 with the message of what was thrown
AuthorizationFailed(err) == Response(500, <<"Authorization failed: ">> \o err.message)

\* the token endpoint rejects the code
exchangeRejected(x) ==
    /\ pc[x] = "awaitTokens"
    /\ \E resp \in Rejections :
         /\ response' = [response EXCEPT ![x] = resp]
         /\ result' = [result EXCEPT ![x] = AuthorizationFailed(ExchangeError(resp))]
    /\ pc' = [pc EXCEPT ![x] = "done"]
    /\ UNCHANGED <<now, store, rd, newToken, tokens, expiryArg, posts, wrote>>

\* getInitialTokens returns the parsed body; the put of access_token is called
exchangeAnswered(x) ==
    /\ pc[x] = "awaitTokens"
    /\ \E resp \in ExchangeOk(x) :
         /\ tokens' = [tokens EXCEPT ![x] = resp.json]
    /\ pc' = [pc EXCEPT ![x] = "putAccess"]
    /\ UNCHANGED <<now, store, rd, response, newToken, expiryArg, posts, wrote, result>>

\* put('access_token', tokens.access_token) lands; the next put is called
storeAccessToken(x) ==
    /\ pc[x] = "putAccess"
    /\ store' = [store EXCEPT !["access_token"] = tokens[x].access_token]
    /\ wrote' = [wrote EXCEPT ![x] = @ \cup {"access_token"}]
    /\ pc' = [pc EXCEPT ![x] = "putRefresh"]
    /\ UNCHANGED <<now, rd, response, newToken, tokens, expiryArg, posts, result>>

\* (mutant) expires_in taken for milliseconds
ExchangeExpiry_noMillis(t, tok) == toString(t + tok.expires_in.num)

\* (Date.now() + tokens.expires_in * 1000).toString()
ExchangeExpiry(t, tok) == toString(t + tok.expires_in.num * 1000)

\* (mutant) the access token is stored under refresh_token
storeRefreshToken_asAccess(x) ==
    /\ pc[x] = "putRefresh"
    /\ store' = [store EXCEPT !["refresh_token"] = tokens[x].access_token]
    /\ wrote' = [wrote EXCEPT ![x] = @ \cup {"refresh_token"}]
    /\ expiryArg' = [expiryArg EXCEPT ![x] = ExchangeExpiry(now, tokens[x])]
    /\ pc' = [pc EXCEPT ![x] = "putExpiry"]
    /\ UNCHANGED <<now, rd, response, newToken, tokens, posts, result>>

\* put('refresh_token', tokens.refresh_token) lands; the put of token_expiry
\* is called
storeRefreshToken(x) ==
    /\ pc[x] = "putRefresh"
    /\ store' = [store EXCEPT !["refresh_token"] = tokens[x].refresh_token]
    /\ wrote' = [wrote EXCEPT ![x] = @ \cup {"refresh_token"}]
    /\ expiryArg' = [expiryArg EXCEPT ![x] = ExchangeExpiry(now, tokens[x])]
    /\ pc' = [pc EXCEPT ![x] = "putExpiry"]
    /\ UNCHANGED <<now, rd, response, newToken, tokens, posts, result>>

AuthorizationSuccessful ==
    Response(200, <<"Authorization successful! You can close this window.">>)

\* put('token_expiry', ...) lands; 200
storeTokenExpiry(x) ==
    /\ pc[x] = "putExpiry"
    /\ store' = [store EXCEPT !["token_expiry"] = expiryArg[x]]
    /\ wrote' = [wrote EXCEPT ![x] = @ \cup {"token_expiry"}]
    /\ result' = [result EXCEPT ![x] = AuthorizationSuccessful]
    /\ pc' = [pc EXCEPT ![x] = "done"]
    /\ UNCHANGED <<now, rd, response, newToken, tokens, expiryArg, posts>>

\* an awaited put rejects: nothing is stored, the catch answers 500
storeRejected(x) ==
    /\ pc[x] \in {"putAccess", "putRefresh", "putExpiry"}
    /\ result' = [result EXCEPT ![x] = AuthorizationFailed(KvPutError)]
    /\ pc' = [pc EXCEPT ![x] = "done"]
    /\ tokens' = [tokens EXCEPT ![x] = Null]
    /\ expiryArg' = [expiryArg EXCEPT ![x] = Null]
    /\ UNCHANGED <<now, store, rd, response, newToken, posts, wrote>>

\* the steps of a callback after its getInitialTokens POST was sent
XSteps(x) ==
    \/ exchangeRejected(x)
    \/ exchangeAnswered(x)
    \/ storeAccessToken(x)
    \/ storeRefreshToken(x)
    \/ storeTokenExpiry(x)
    \/ storeRejected(x)

XNext(x) == callbackWithoutCode(x) \/ handleCallback(x) \/ XSteps(x)

\* ------------------------------------------------ the hosting environment
\* the await an invocation is suspended at, if any
Suspended(p) == pc[p] \notin {"idle", "done"}

\* the platform tears the invocation down while it is suspended at an await
Teardown(p) ==
    /\ Suspended(p)
    /\ pc' = [pc EXCEPT ![p] = "idle"]
    /\ ResetLocals(p)
    /\ UNCHANGED <<now, store>>

\* the invocation has answered; its request is over
Finish(p) ==
    /\ pc[p] = "done"
    /\ pc' = [pc EXCEPT ![p] = "idle"]
    /\ ResetLocals(p)
    /\ UNCHANGED <<now, store>>

InFlight == {p \in Procs : Suspended(p)}

\* one request for a token at a time, overlapping with a callback
Next ==
    \/ Tick
    \/ GNext("g1")
    \/ \E x \in XProcs : XNext(x)
    \/ \E p \in Procs : Teardown(p)
    \/ \E p \in Procs : Finish(p)

Spec == Init /\ [][Next]_vars

\* two requests for a token overlap, before or after a callback has run
NextTwo ==
    \/ Tick
    \/ \E p \in GProcs : GNext(p)
    \/ \E p \in GProcs : Teardown(p)
    \/ \E p \in GProcs : Finish(p)

SpecTwo == InitExchanged /\ [][NextTwo]_vars

\* requests come one after the other, whatever KV holds at the start
NextSeq ==
    \/ Tick
    \/ InFlight = {} /\ getValidAccessToken("g1")
    \/ GSteps("g1")
    \/ \E x \in XProcs : InFlight = {} /\ handleCallback(x)
    \/ \E x \in XProcs : callbackWithoutCode(x)
    \/ \E x \in XProcs : XSteps(x)
    \/ \E p \in Procs : Teardown(p)
    \/ \E p \in Procs : Finish(p)

SpecSeq == InitStored /\ [][NextSeq]_vars

\* ================================================================ claims
\* the access token tok is one the provider still honours at time t
Honoured(tok, t) == t < tok.at + tok.life * 1000

\* invocation p of getValidAccessToken returns to its caller in this step
Returns(p) ==
    /\ pc[p] # "done"
    /\ pc'[p] = "done"
    /\ result'[p].kind = "return"

\* C1: every access token getValidAccessToken returns is valid at the moment
\* of the return: the time is before the instant the provider issued it plus
\* the lifetime the provider gave it.
C1_ReturnedTokenIsValid ==
    [][\A p \in GProcs : Returns(p) => Honoured(result'[p].value, now')]_vars

\* ---------------------------------------------------------------- C2
\* invocation p takes the decision of lines 436-452 in this step
Decides(p) ==
    /\ pc[p] = "reading"
    /\ pc'[p] \in {"done", "awaitRefresh"}

\* the record in KV holds an access token that line 436 would accept at time t
StoredTokenValid(t) ==
    /\ store["access_token"] # Null
    /\ store["token_expiry"] # Null
    /\ parseInt(store["token_expiry"]) > t

\* C2: when access_token and token_expiry are both stored and token_expiry is
\* later than the current time, getValidAccessToken returns exactly the stored
\* access_token and issues no POST to the token endpoint, with or without a
\* stored refresh_token.
C2_ValidTokenReturnedFromCache ==
    [][\A p \in GProcs :
         (Decides(p) /\ StoredTokenValid(now))
           => /\ pc'[p] = "done"
              /\ result'[p] = Return(store["access_token"])
              /\ posts'[p] = 0
              /\ wrote'[p] = {}]_vars

\* a cached return from a record that holds no refresh_token
C2_Witness ==
    \E p \in GProcs :
       /\ pc[p] = "done"
       /\ result[p] = Return(store["access_token"])
       /\ store["access_token"] # Null
       /\ store["refresh_token"] = Null
       /\ posts[p] = 0

\* ---------------------------------------------------------------- C3
\* the record in KV is expired at time t and holds a refresh token
StoredTokenExpired(t) ==
    /\ store["token_expiry"] # Null
    /\ parseInt(store["token_expiry"]) <= t
    /\ store["refresh_token"] # Null

\* C3: when the stored token_expiry is not later than the current time and a
\* refresh_token is stored, getValidAccessToken issues exactly one refresh
\* POST; when the POST succeeds newToken is the token of the provider's
\* answer, the token_expiry computed for it is later than the current time,
\* and a call that returns returns that token and leaves it in the store
\* together with that token_expiry.
C3_ExpiredTokenIsRefreshed ==
    [][\A p \in GProcs :
         /\ (Decides(p) /\ StoredTokenExpired(now))
              => (pc'[p] = "awaitRefresh" /\ posts'[p] = 1)
         /\ posts'[p] <= 1
         /\ (pc[p] = "awaitRefresh" /\ pc'[p] = "putAccess")
              => /\ newToken'[p] = response'[p].json.access_token
                 /\ newToken'[p] = AccessTok(now, newToken'[p].life, p)
                 /\ posts'[p] = 1
         /\ (pc[p] = "putAccess" /\ pc'[p] = "putExpiry")
              => /\ store'["access_token"] = newToken[p]
                 /\ parseInt(expiryArg'[p]) > now
         /\ (pc[p] = "putExpiry" /\ Returns(p))
              => /\ result'[p] = Return(newToken[p])
                 /\ store'["access_token"] = newToken[p]
                 /\ store'["token_expiry"] = expiryArg[p]
                 /\ posts'[p] = 1]_vars

\* a refresh has run to its end: the store holds the returned token and an
\* expiry in the future
C3_Witness ==
    \E p \in GProcs :
       /\ pc[p] = "done"
       /\ result[p].kind = "return"
       /\ posts[p] = 1
       /\ wrote[p] = {"access_token", "token_expiry"}
       /\ store["access_token"] = result[p].value
       /\ parseInt(store["token_expiry"]) > now

\* ---------------------------------------------------------------- C4
\* C4: when no refresh_token is stored and the stored access token is missing
\* or not valid any more, getValidAccessToken throws the reauthorization error
\* and issues no POST.
C4_NoTokensFailsClosed ==
    [][\A p \in GProcs :
         (Decides(p) /\ store["refresh_token"] = Null /\ ~StoredTokenValid(now))
           => /\ pc'[p] = "done"
              /\ result'[p] = ReauthorizeError
              /\ posts'[p] = 0
              /\ wrote'[p] = {}]_vars

\* the reauthorization error on an expired access token without refresh token
C4_Witness ==
    \E p \in GProcs :
       /\ pc[p] = "done"
       /\ result[p] = ReauthorizeError
       /\ posts[p] = 0
       /\ store["access_token"] # Null
       /\ store["token_expiry"] # Null
       /\ parseInt(store["token_expiry"]) <= now
       /\ store["refresh_token"] = Null

\* ---------------------------------------------------------------- C5
\* the thrown message has text as one of its parts
Carries(err, text) == \E i \in DOMAIN err.message : err.message[i] = text

\* the error a rejected refresh is reported with
TokenRefreshFailed(err) ==
    /\ err.kind = "throw"
    /\ err.message[1] = "Failed to refresh token: "

\* the token endpoint answers p's refresh POST with a non-success status
RefreshIsRejected(p) ==
    /\ pc[p] = "awaitRefresh"
    /\ pc'[p] = "done"
    /\ ~response'[p].ok

\* C5 as stated: on a non-success status of the refresh POST,
\* getValidAccessToken fails with the refresh error carrying the provider's
\* status and reason phrase, and the store keeps its values.
C5_RejectionCarriesStatusAndReason ==
    [][\A p \in GProcs :
         RefreshIsRejected(p)
           => /\ TokenRefreshFailed(result'[p])
              /\ Carries(result'[p], response'[p].status)
              /\ Carries(result'[p], response'[p].statusText)
              /\ wrote'[p] = {}
              /\ store' = store]_vars

\* a step of invocation p itself
OwnStep(p) == pc'[p] # pc[p] \/ rd'[p] # rd[p]

\* C5 as amended: on a non-success status of the refresh POST,
\* getValidAccessToken fails with the refresh error carrying the provider's
\* reason phrase (statusText); no step of the call up to and including the
\* failure has changed the store, and the call has put no key.
C5_RejectionCarriesReason ==
    [][\A p \in GProcs :
         /\ RefreshIsRejected(p)
              => /\ TokenRefreshFailed(result'[p])
                 /\ Carries(result'[p], response'[p].statusText)
                 /\ wrote'[p] = {}
         /\ (OwnStep(p) /\ pc[p] \in {"idle", "reading", "awaitRefresh"})
              => store' = store]_vars

\* a refresh that the provider answered with 401
C5_Witness ==
    \E p \in GProcs :
       /\ pc[p] = "done"
       /\ response[p] # Null
       /\ response[p].status = "401"
       /\ result[p] = Error("Failed to refresh token: ", "Unauthorized")
       /\ posts[p] = 1
       /\ store["refresh_token"] # Null

\* ---------------------------------------------------------------- C6
\* the callback x stores its last key and answers 200 in this step
ExchangeSucceeds(x) ==
    /\ pc[x] = "putExpiry"
    /\ pc'[x] = "done"
    /\ result'[x] = AuthorizationSuccessful

\* C6: a successful exchange leaves all three keys set, to the values of the
\* provider's answer; a getValidAccessToken call that follows it, while the
\* provider still honours that token, returns the access token the exchange
\* stored and issues no POST.
C6_ExchangeThenCachedToken ==
    [][\A x \in XProcs :
         /\ ExchangeSucceeds(x)
              => /\ \A k \in Keys : store'[k] # Null
                 /\ store'["access_token"] = tokens[x].access_token
                 /\ store'["refresh_token"] = tokens[x].refresh_token
                 /\ store'["token_expiry"] = expiryArg[x]
         /\ \A p \in GProcs :
              ( /\ Decides(p)
                /\ pc[x] = "done"
                /\ result[x] = AuthorizationSuccessful
                /\ store["access_token"] = tokens[x].access_token
                /\ Honoured(tokens[x].access_token, now) )
                => /\ pc'[p] = "done"
                   /\ result'[p] = Return(tokens[x].access_token)
                   /\ posts'[p] = 0]_vars

\* the call after a successful exchange has returned the exchanged token
C6_Witness ==
    \E x \in XProcs, p \in GProcs :
       /\ pc[x] = "done"
       /\ result[x] = AuthorizationSuccessful
       /\ pc[p] = "done"
       /\ result[p] = Return(tokens[x].access_token)
       /\ store["access_token"] = tokens[x].access_token
       /\ posts[p] = 0

\* ---------------------------------------------------------------- C7
\* the expiry the claim describes: the provider's expires_in, 3600 without one
ClaimedExpiry(t, resp) ==
    IF resp.json.expires_in # Null
      THEN toString(t + resp.json.expires_in.num * 1000)
      ELSE toString(t + 3600 * 1000)

\* C7: on a successful refresh the token_expiry written to the store is
\* now + expires_in*1000 for the expires_in of the provider's answer, and
\* now + 3600*1000 only when the answer has no expires_in.
C7_RefreshHonoursExpiresIn ==
    [][\A p \in GProcs :
         /\ (pc[p] = "putAccess" /\ pc'[p] = "putExpiry")
              => expiryArg'[p] = ClaimedExpiry(now, response[p])
         /\ (pc[p] = "putExpiry" /\ Returns(p))
              => store'["token_expiry"] = expiryArg[p]]_vars

\* ---------------------------------------------------------------- C8
\* what p has read sends it to the refresh: no valid token, a refresh token
ObservesExpired(p) ==
    /\ pc[p] = "reading"
    /\ AllRead(p)
    /\ ~TokenStillValid(rd[p]["access_token"], rd[p]["token_expiry"], now)
    /\ HasRefreshToken(rd[p]["refresh_token"])

\* C8: there is no mutual exclusion between concurrent getValidAccessToken
\* invocations that observe an expired token with a refresh token: each can
\* issue its refresh POST whatever the other is doing, each refresh is
\* answered with a token of its own, each invocation that returns has written
\* access_token and token_expiry and returns the token of its own refresh.
C8_ConcurrentRefreshesAreIndependent ==
    \A p \in GProcs :
       /\ ObservesExpired(p) => ENABLED callRefresh(p)
       /\ pc[p] \in {"putAccess", "putExpiry"}
            => (newToken[p].to = p /\ posts[p] = 1)
       /\ (pc[p] = "done" /\ result[p].kind = "return" /\ posts[p] = 1)
            => /\ result[p].value.to = p
               /\ wrote[p] = {"access_token", "token_expiry"}

\* both invocations are in their refresh at once, each with its own token
\* written to access_token
C8_Witness ==
    /\ pc["g1"] = "putExpiry"
    /\ pc["g2"] = "putExpiry"
    /\ newToken["g1"].to = "g1"
    /\ newToken["g2"].to = "g2"
    /\ "access_token" \in wrote["g1"] \cap wrote["g2"]

\* ---------------------------------------------------------------- C9
\* C9: whatever way a getValidAccessToken invocation ends, it has written
\* both access_token and token_expiry or neither of them.
C9_BothWrittenOrNeither ==
    \A p \in GProcs :
       pc[p] = "done" => wrote[p] \in {{}, {"access_token", "token_expiry"}}

\* --------------------------------------------------------------- C10
\* C10: no step of getValidAccessToken changes the stored refresh_token or
\* puts that key; the stored refresh_token changes only when handleCallback
\* puts it.
C10_OnlyExchangeWritesRefreshToken ==
    [][/\ \A p \in GProcs : "refresh_token" \notin wrote'[p]
       /\ store'["refresh_token"] # store["refresh_token"]
            => \E x \in XProcs : pc[x] = "putRefresh" /\ pc'[x] = "putExpiry"]_vars

\* a successful refresh has run and the refresh token is still stored
C10_Witness ==
    \E p \in GProcs :
       /\ pc[p] = "done"
       /\ result[p].kind = "return"
       /\ posts[p] = 1
       /\ wrote[p] = {"access_token", "token_expiry"}
       /\ store["refresh_token"] = RefreshTok("x1")

\* --------------------------------------------------------------- C11
\* C11: on a successful authorization-code exchange the three values of the
\* provider's answer are persisted: each put stores the value of the answer
\* under its key (access_token and refresh_token as returned, token_expiry as
\* Date.now() + expires_in*1000 for the expires_in of that answer), and the
\* callback answers 200 only after all three were put.
C11_ExchangePersistsAllThree ==
    [][\A x \in XProcs :
         /\ (pc[x] = "awaitTokens" /\ pc'[x] = "putAccess")
              => \E resp \in ExchangeOk(x) : tokens'[x] = resp.json
         /\ (pc[x] = "putAccess" /\ pc'[x] = "putRefresh")
              => store' = [store EXCEPT !["access_token"] = tokens[x].access_token]
         /\ (pc[x] = "putRefresh" /\ pc'[x] = "putExpiry")
              => /\ store' = [store EXCEPT !["refresh_token"] = tokens[x].refresh_token]
                 /\ parseInt(expiryArg'[x]) = now + tokens[x].expires_in.num * 1000
         /\ ExchangeSucceeds(x)
              => /\ store' = [store EXCEPT !["token_expiry"] = expiryArg[x]]
                 /\ wrote'[x] = Keys
         /\ (pc'[x] \in {"putAccess", "putRefresh", "putExpiry", "done"}
               /\ tokens'[x] # Null /\ tokens[x] # Null)
              => tokens'[x] = tokens[x]]_vars

\* an exchange answered 200 some time after the clock started, and the store
\* holds the three values of the provider's answer
C11_Witness ==
    \E x \in XProcs :
       /\ pc[x] = "done"
       /\ result[x] = AuthorizationSuccessful
       /\ wrote[x] = Keys
       /\ tokens[x].access_token.at > 0
       /\ store["access_token"] = tokens[x].access_token
       /\ store["refresh_token"] = tokens[x].refresh_token
       /\ store["token_expiry"] = expiryArg[x]
       /\ parseInt(store["token_expiry"])
            = tokens[x].access_token.at + tokens[x].expires_in.num * 1000

\* --------------------------------------------------------------- C12
\* the error a rejected authorization-code exchange is reported with
AuthorizationExchangeFailed(err) ==
    /\ err.kind = "throw"
    /\ err.message[1] = "Failed to get tokens: "

\* the token endpoint answers x's authorization-code POST with a non-success
\* status
ExchangeIsRejected(x) ==
    /\ pc[x] = "awaitTokens"
    /\ pc'[x] = "done"
    /\ ~response'[x].ok

\* C12: when the token endpoint answers the authorization-code POST with a
\* non-success status, the exchange fails with the error of getInitialTokens
\* (which the callback reports as a 500), the callback has put none of the
\* three keys, and no step of the callback up to and including the failure
\* has changed the store.
C12_RejectedExchangeWritesNothing ==
    [][\A x \in XProcs :
         /\ ExchangeIsRejected(x)
              => /\ \E err \in {Error("Failed to get tokens: ", response'[x].statusText)} :
                      /\ AuthorizationExchangeFailed(err)
                      /\ result'[x] = Response(500, <<"Authorization failed: ">> \o err.message)
                 /\ wrote'[x] = {}
                 /\ store' = store
         /\ (pc'[x] # pc[x] /\ pc[x] \in {"idle", "awaitTokens"} /\ pc'[x] # "putAccess")
              => (store' = store /\ wrote'[x] = {})
         /\ (pc[x] = "awaitTokens" /\ pc'[x] = "putAccess")
              => (store' = store /\ wrote'[x] = {})]_vars

\* an exchange the provider answered with 401, over a record that an earlier
\* exchange had stored
C12_Witness ==
    \E x \in XProcs :
       /\ pc[x] = "done"
       /\ response[x] # Null
       /\ response[x].status = "401"
       /\ result[x] = Response(500, <<"Authorization failed: ", "Failed to get tokens: ", "Unauthorized">>)
       /\ wrote[x] = {}
       /\ posts[x] = 1
       /\ \A k \in Keys : store[k] # Null

\* --------------------------------------------------------------- C13
\* the record in KV holds an access token whose token_expiry is exactly t
StoredTokenExpiresAt(t) ==
    /\ store["access_token"] # Null
    /\ store["token_expiry"] # Null
    /\ parseInt(store["token_expiry"]) = t

\* C13: the comparison is strict: a stored access_token whose token_expiry
\* equals the current millisecond is not returned from the cache; the call
\* goes on to its refresh POST when a refresh_token is stored and throws the
\* reauthorization error when none is.
C13_ExpiryInCurrentMillisecondIsExpired ==
    [][\A p \in GProcs :
         (Decides(p) /\ StoredTokenExpiresAt(now))
           => /\ result'[p] # Return(store["access_token"])
              /\ store["refresh_token"] # Null
                   => (pc'[p] = "awaitRefresh" /\ posts'[p] = 1)
              /\ store["refresh_token"] = Null
                   => (pc'[p] = "done" /\ result'[p] = ReauthorizeError /\ posts'[p] = 0)]_vars

\* a refresh was started on a token that expires in the current millisecond
C13_Witness ==
    \E p \in GProcs :
       /\ pc[p] = "awaitRefresh"
       /\ posts[p] = 1
       /\ now > 0
       /\ StoredTokenExpiresAt(now)

\* --------------------------------------------------------------- C14
\* the record in KV is partial: one of access_token and token_expiry is set
\* and the other is not
PartialRecord ==
    (store["access_token"] = Null) # (store["token_expiry"] = Null)

\* C14: on a partial record getValidAccessToken returns no cached value: it
\* goes on to its refresh POST when a refresh_token is stored and throws the
\* reauthorization error when none is, and the decision has no third outcome.
C14_PartialRecordNeverServedFromCache ==
    [][\A p \in GProcs :
         (Decides(p) /\ PartialRecord)
           => /\ result'[p] \in {Null, ReauthorizeError}
              /\ wrote'[p] = {}
              /\ store' = store
              /\ store["refresh_token"] # Null
                   => (pc'[p] = "awaitRefresh" /\ posts'[p] = 1 /\ result'[p] = Null)
              /\ store["refresh_token"] = Null
                   => (pc'[p] = "done" /\ result'[p] = ReauthorizeError /\ posts'[p] = 0)]_vars

\* a refresh was started on a record whose token_expiry lies in the future
\* but whose access_token is missing
C14_Witness ==
    \E p \in GProcs :
       /\ pc[p] = "awaitRefresh"
       /\ posts[p] = 1
       /\ store["access_token"] = Null
       /\ store["token_expiry"] # Null
       /\ parseInt(store["token_expiry"]) > now

\* --------------------------------------------------------------- C15
\* the token endpoint answers p's refresh POST with a success status and a
\* body that is no JSON
RefreshIsMalformed(p) ==
    /\ pc[p] = "awaitRefresh"
    /\ pc'[p] = "done"
    /\ response'[p].ok
    /\ response'[p].json = MalformedBody

\* C15: when the refresh POST is answered with a success status and a
\* malformed JSON body, getValidAccessToken fails with the error a rejected
\* refresh is reported with, and the store keeps its values.
C15_MalformedBodyIsRefreshFailure ==
    [][\A p \in GProcs :
         RefreshIsMalformed(p)
           => /\ TokenRefreshFailed(result'[p])
              /\ wrote'[p] = {}
              /\ store' = store]_vars

\* --------------------------------------------------------------- C16
\* how far an invocation of getValidAccessToken has come
Progress ==
    [idle |-> 0, reading |-> 1, awaitRefresh |-> 2, putAccess |-> 3,
     putExpiry |-> 4, done |-> 5]

\* invocation p is at an await that some answer can end
Answerable(p) ==
    \/ \E k \in Keys : ENABLED kvGet(p, k)
    \/ ENABLED returnCached(p)
    \/ ENABLED callRefresh(p)
    \/ ENABLED throwReauthorize(p)
    \/ ENABLED refreshAnswered(p)
    \/ ENABLED putNewToken(p)
    \/ ENABLED putNewExpiry(p)

\* an invocation never posts twice, is never stuck at an await that was
\* answered, and has ended with a token or with an error when it is done
NoRetryState ==
    \A p \in GProcs :
       /\ posts[p] <= 1
       /\ wrote[p] \subseteq {"access_token", "token_expiry"}
       /\ Suspended(p) => Answerable(p)
       /\ pc[p] = "done" => result[p].kind \in {"return", "throw"}

\* every step of a running invocation takes it forward, a POST is sent only
\* on the step into awaitRefresh, and the store is written only on the two
\* steps that end the awaited puts
NoRetryStep ==
    \A p \in GProcs :
       /\ (pc'[p] # pc[p] /\ pc'[p] # "idle")
            => Progress[pc'[p]] > Progress[pc[p]]
       /\ (posts'[p] > posts[p])
            => (pc[p] = "reading" /\ pc'[p] = "awaitRefresh")
       /\ (wrote'[p] # wrote[p] /\ pc'[p] # "idle")
            => /\ pc[p] \in {"putAccess", "putExpiry"}
               /\ Progress[pc'[p]] = Progress[pc[p]] + 1
               /\ Cardinality(wrote'[p]) = Cardinality(wrote[p]) + 1

\* C16: there is no automatic retry: an invocation of getValidAccessToken
\* sends at most one POST to the token endpoint and performs at most two
\* store writes, each of its steps takes it forward, it is never stuck once
\* its awaits are answered, and it ends with a token or with an error.
C16_NoRetry == []NoRetryState /\ [][NoRetryStep]_vars

\* an invocation has ended after one POST and two store writes
C16_Witness ==
    \E p \in GProcs :
       /\ pc[p] = "done"
       /\ posts[p] = 1
       /\ Cardinality(wrote[p]) = 2
       /\ result[p].kind \in {"return", "throw"}

\* --------------------------------------------------------------- C17
\* C17: on the refresh path the put of the new access_token and the put of
\* the new token_expiry have both landed in the store before the new token is
\* returned: the token a refresh returns is the one its first put stored, and
\* the return is the step on which its second put lands.
C17_WrittenBeforeReturned ==
    [][\A p \in GProcs :
         /\ (pc[p] = "putAccess" /\ pc'[p] = "putExpiry")
              => /\ store'["access_token"] = newToken[p]
                 /\ "access_token" \in wrote'[p]
         /\ (pc[p] = "putExpiry" /\ pc'[p] = "putExpiry")
              => (newToken'[p] = newToken[p] /\ wrote'[p] = wrote[p])
         /\ (Returns(p) /\ posts[p] = 1)
              => /\ pc[p] = "putExpiry"
                 /\ result'[p] = Return(newToken[p])
                 /\ wrote[p] = {"access_token"}
                 /\ wrote'[p] = {"access_token", "token_expiry"}
                 /\ store'["token_expiry"] = expiryArg[p]
                 /\ store'["access_token"] # Null]_vars

\* a refresh has returned its token while another invocation is still
\* running; the store holds the returned token and the expiry written for it
C17_Witness ==
    \E p \in GProcs, q \in GProcs :
       /\ pc[p] = "done"
       /\ Suspended(q)
       /\ posts[p] = 1
       /\ result[p].kind = "return"
       /\ wrote[p] = {"access_token", "token_expiry"}
       /\ store["access_token"] = result[p].value
       /\ store["token_expiry"] = RefreshExpiry(result[p].value.at)

\* --------------------------------------------------------------- C18
\* invocation p is torn down between the provider's answer to its refresh
\* and the landing of its last put
TornDownAfterResponse(p) ==
    /\ pc[p] \in {"putAccess", "putExpiry"}
    /\ pc'[p] = "idle"

RecordComplete == \A k \in Keys : store[k] # Null

\* C19: no step removes a key from the store: a key that is set stays set,
\* a successful exchange leaves all three keys set, and once all three are
\* set they are set in every later state, whatever refreshes, failures,
\* teardowns and exchanges follow.
C19_RecordNeverDeleted ==
    [][/\ \A k \in Keys : store[k] # Null => store'[k] # Null
       /\ RecordComplete => RecordComplete'
       /\ \A x \in XProcs : ExchangeSucceeds(x) => RecordComplete']_vars

\* after an exchange, a refresh the provider rejected has ended and all three
\* keys are still set
C19_Witness ==
    \E p \in GProcs :
       /\ pc[p] = "done"
       /\ result[p].kind = "throw"
       /\ posts[p] = 1
       /\ response[p] # Null
       /\ ~response[p].ok
       /\ RecordComplete

\* --------------------------------------------------------------- C20
\* what holds of every access token a and token_expiry e that are in the
\* store at one instant, when the last exchange ran at time 0 and only
\* refreshes write: the token of the exchange is there with the token_expiry
\* of the exchange only, because every refresh replaces access_token before
\* it replaces token_expiry
InStoreTogether(a, e) ==
    (a # Null /\ a.to \in XProcs) => e = toString(a.at + a.life * 1000)

\* invocation p takes the cached return of line 438 in this step
ReturnsCached(p) ==
    /\ pc[p] = "reading"
    /\ pc'[p] = "done"
    /\ result'[p].kind = "return"

\* C20: the three reads may answer in any order, also with the writes of a
\* concurrent refresh between them: the access_token and the token_expiry in
\* the store at any instant belong together, and whenever a call returns a
\* cached token, the access_token and the token_expiry it compared are a pair
\* that was in the store together, never an older access_token with the
\* token_expiry written for a newer one.
C20_CachedReturnComparesStoredPair ==
    /\ []InStoreTogether(store["access_token"], store["token_expiry"])
    /\ [][\A p \in GProcs :
            ReturnsCached(p)
              => /\ result'[p] = Return(rd[p]["access_token"])
                 /\ InStoreTogether(rd[p]["access_token"], rd[p]["token_expiry"])]_vars

\* --------------------------------------------------------------- C21
\* a refresh p and an exchange x have both run to their end, each having put
\* all of its keys
BothCompleted(p, x) ==
    /\ pc[p] = "done"
    /\ result[p].kind = "return"
    /\ wrote[p] = {"access_token", "token_expiry"}
    /\ pc[x] = "done"
    /\ result[x] = AuthorizationSuccessful
    /\ wrote[x] = Keys

\* the token_expiry e is one that the refresh which returned tok can have
\* written: the Date.now() of line 446 lies between the provider's answer and
\* the present
RefreshWrote(tok, e) ==
    \E k \in 0..MaxTicks :
       /\ tok.at <= k * TickMs
       /\ k * TickMs <= now
       /\ e = RefreshExpiry(k * TickMs)

\* C21: once a getValidAccessToken invocation and a callback that ran at the
\* same time have both completed, the access_token and the token_expiry in
\* the store were written by the same one of them, whatever the order in
\* which their puts landed.
C21_FinalPairHasOneWriter ==
    \A p \in GProcs, x \in XProcs :
       BothCompleted(p, x)
         => \/ /\ store["access_token"] = tokens[x].access_token
               /\ store["token_expiry"] = expiryArg[x]
            \/ /\ store["access_token"] = result[p].value
               /\ RefreshWrote(result[p].value, store["token_expiry"])

\* --------------------------------------------------------------- C22
\* the access token the writer w is storing: newToken of a refresh, tokens of
\* a callback
NewAccessToken(w) ==
    IF w \in GProcs THEN newToken[w] ELSE tokens[w].access_token

\* the writer w stands between two of its puts
BetweenPuts(w) ==
    /\ wrote[w] # {}
    /\ pc[w] \in {"putRefresh", "putExpiry"}

\* C22: both writers put access_token before token_expiry. With requests one
\* after the other, the step on which a writer's access_token lands leaves
\* token_expiry as it was, every step between two puts of a writer leaves
\* access_token and token_expiry as they are, and token_expiry changes only
\* on a step of a writer whose own access_token is in the store: every
\* intermediate store pairs the new access_token with the previous
\* token_expiry, never the previous access_token with a new token_expiry.
C22_AccessTokenBeforeExpiry ==
    [][\A w \in Procs :
         /\ (pc[w] = "putAccess" /\ pc'[w] \in {"putRefresh", "putExpiry"})
              => /\ store'["access_token"] = NewAccessToken(w)
                 /\ store'["token_expiry"] = store["token_expiry"]
                 /\ BetweenPuts(w)'
         /\ (BetweenPuts(w) /\ BetweenPuts(w)')
              => /\ store'["access_token"] = NewAccessToken(w)
                 /\ store'["token_expiry"] = store["token_expiry"]
         /\ (pc[w] = "putExpiry" /\ pc'[w] = "done" /\ store'["token_expiry"] # store["token_expiry"])
              => /\ store["access_token"] = NewAccessToken(w)
                 /\ store'["access_token"] = store["access_token"]
                 /\ store'["token_expiry"] = expiryArg[w]
         /\ (store'["token_expiry"] # store["token_expiry"])
              => \E v \in Procs : pc[v] = "putExpiry" /\ pc'[v] = "done"]_vars

\* a refresh stands between its two puts: its new access_token is stored
\* beside the token_expiry of the record it replaces
C22_Witness ==
    \E p \in GProcs :
       /\ pc[p] = "putExpiry"
       /\ wrote[p] = {"access_token"}
       /\ store["access_token"] = newToken[p]
       /\ store["token_expiry"] # Null
       /\ store["token_expiry"] # expiryArg[p]
       /\ parseInt(store["token_expiry"]) <= now

====
